---- MODULE Spec2Model ----
(***************************************************************************)
(* The automatic message delivery pipeline of RealTimeMessageSystem:       *)
(* QueueManager (jobs/queue-manager), RabbitMQService (services/rabbitmq), *)
(* and the message consumer (listeners/message-consumer), together with    *)
(* the AutoMessage collection and the broker queue they share.             *)
(*                                                                         *)
(* Two Node processes run the same RabbitMQService class: the API server   *)
(* (which also runs QueueManager) and the consumer.  Every await of the    *)
(* source is a step boundary; the synchronous code between two awaits is   *)
(* one step.  Where a continuation runs in the same event-loop turn as the *)
(* step before it, the intermediate program counter is "locked": no other  *)
(* action may interleave (see Locked).                                     *)
(***************************************************************************)
EXTENDS Integers, Sequences, FiniteSets, TLC

\* ------------------------------------------------------------------ bounds
MaxRecords == 2     \* AutoMessage records in the collection
MaxTime    == 2     \* clock values 1..MaxTime
MaxConns   == 2     \* connections one process opens in a run
MaxFaults  == 2     \* environment faults injected in a run
MaxScans   == 2     \* scan activations representable at once
MaxInv     == 2     \* handler invocations representable at once
MaxUsers   == 4     \* active users a Scheduler run finds
MaxCalls   == 2     \* calls of createOrGetConversation one caller makes

\* ------------------------------------------------------- program constants
BaseDelayMs == 1000
CapDelayMs  == 10000
HoursPerDay == 24

Procs   == {"server", "consumer"}
RecIds  == 1..MaxRecords
ConnIds == 1..MaxConns
NoConn  == 0        \* null connection / channel reference
Unset   == 0        \* an unset Date field

Min(a, b) == IF a <= b THEN a ELSE b

VARIABLES
    now,            \* wall clock
    autoMessages,   \* the AutoMessage collection
    rmq,            \* RabbitMQService statics, per process
    connecting,     \* the activation of connect() in each process
    proc,           \* lifecycle of each process
    connCount,      \* broker: connections each process has opened so far
    connOpen,       \* broker: open connections of each process
    chanOpen,       \* broker: open channels (one per connection)
    consumers,      \* broker: consumers registered on each channel
    tagCount,       \* broker: last delivery tag used on each channel
    msgs,           \* broker: the messages of message_sending_queue
    isRunning,      \* QueueManager.isRunning
    scans,          \* activations of processScheduledMessages
    lastPubFailed,  \* records whose publish failed in the scan that ended last
    triggerLog,     \* which triggers were turned away by the guard
    invocations,    \* activations of the consume callback
    handlerLog,     \* what happened to handler invocations so far
    faults,         \* environment faults injected so far
    closing,        \* the activation of close() in each process
    chat,           \* the Conversation and Message collections
    sched,          \* MessageScheduler: the active users and the current run
    calls           \* callers of createOrGetConversation outside the consumer

vars == <<now, autoMessages, rmq, connecting, proc, connCount, connOpen, chanOpen,
          consumers, tagCount, msgs, isRunning, scans, lastPubFailed,
          triggerLog, invocations, handlerLog, faults, closing, chat, sched, calls>>

\* ------------------------------------------------------------ value spaces
\* A scan republishes a record only after a fault, so this many payloads can
\* ever be handed to the broker.
MsgIds == 1..(MaxRecords + MaxFaults)

Range(s) == {s[i] : i \in 1..Len(s)}

\* The ids of a set as an ascending sequence (the order the due-query returns).
RECURSIVE SortedSeq(_)
SortedSeq(S) ==
    IF S = {} THEN <<>>
    ELSE LET m == CHOOSE x \in S : \A y \in S : x <= y
         IN  <<m>> \o SortedSeq(S \ {m})

\* RabbitMQService's static fields as first initialised.
InitService ==
    [connection       |-> NoConn,
     channel          |-> NoConn,
     isConnecting     |-> FALSE,
     reconnectTimer   |-> FALSE,
     timerDelay       |-> 0,
     lastDelay        |-> 0,      \* history: the delay armed last since the backoff was reset
     reconnectDelayMs |-> BaseDelayMs,
     consumerHandler  |-> FALSE,
     timers           |-> 0,      \* history: the setTimeout timers of scheduleReconnect not yet fired or cleared
     attempts         |-> 0]      \* history: the connect() calls past the isConnecting test and not yet settled

IdleConnect == [pc |-> "idle", caller |-> "none", scan |-> 0, ok |-> FALSE]

IdleScan ==
    [pc |-> "idle", t0 |-> 0, found |-> <<>>, idx |-> 0,
     queuedIds |-> <<>>, failedIds |-> <<>>, queuedAt |-> Unset,
     attempted |-> {}, pubOk |-> {}, pubFailed |-> {}, saveFailed |-> {},
     sends |-> 0, reconnects |-> 0,
     nFound |-> 0, queued |-> 0,   \* result.found, result.queued
     marked |-> {},                \* history: the records this scan's save() stored as Queued
     threw |-> FALSE]              \* history: the scan before this one ended by throwing

IdleInvocation ==
    [pc |-> "idle", msg |-> 0, proc |-> "none", ch |-> NoConn, tag |-> 0, conv |-> 0]

IdleClose == [pc |-> "idle", target |-> NoConn]

NoChat == [conversations |-> <<>>, messages |-> {}]

\* MessageScheduler with the active users U and no run in progress.  The
\* fields of a run (t0, perm, batch, inserted, events, outcome) describe the
\* current run, or the last one once it is over.
IdleScheduler(U) ==
    [pc |-> "idle", users |-> U, t0 |-> 0, perm |-> <<>>, batch |-> <<>>,
     inserted |-> <<>>, events |-> <<>>, outcome |-> "none", failedAt |-> "none"]

\* A caller of createOrGetConversation (the conversation controller, a test):
\* the active users it sees, the call in progress with its arguments and what
\* it found, and the results of its calls so far (0 for a call that threw).
NoCalls ==
    [pc |-> "idle", active |-> {}, a |-> "none", b |-> "none", found |-> 0,
     pair |-> {}, results |-> <<>>, created |-> 0]

NoMsgLog ==
    [deliveries |-> 0, succeeded |-> FALSE, ackedOwn |-> FALSE,
     failed |-> FALSE, rejectedOwn |-> FALSE,
     rejectedFirst |-> FALSE, queuedAtFail |-> FALSE,
     deliveredAfterFail |-> FALSE, deliveredAfterReject |-> FALSE]

\* --------------------------------------------------------------- datastore
\* autoMessageSchema: the status fields and their defaults.
NewAutoMessage(sendDate) ==
    [sendDate |-> sendDate, isQueued |-> FALSE, isSent |-> FALSE,
     queuedAt |-> Unset, sentAt |-> Unset]

\* The collection as earlier Scheduler runs left it: record r falls due at
\* time r (the last ones at MaxTime).
SendDateOf(r) == Min(r, MaxTime)

Init ==
    /\ now = 1
    /\ autoMessages = [r \in RecIds |-> NewAutoMessage(SendDateOf(r))]
    /\ rmq = [p \in Procs |-> InitService]
    /\ connecting = [p \in Procs |-> IdleConnect]
    /\ proc = [p \in Procs |-> "init"]
    /\ connCount = [p \in Procs |-> 0]
    /\ connOpen = [p \in Procs |-> {}]
    /\ chanOpen = [p \in Procs |-> {}]
    /\ consumers = [p \in Procs |-> [n \in ConnIds |-> 0]]
    /\ tagCount = [p \in Procs |-> [n \in ConnIds |-> 0]]
    /\ msgs = <<>>
    /\ isRunning = FALSE
    /\ scans = [s \in 1..MaxScans |-> IdleScan]
    /\ lastPubFailed = {}
    /\ triggerLog = [cronDropped |-> FALSE, manualRejected |-> FALSE]
    /\ invocations = [i \in 1..MaxInv |-> IdleInvocation]
    /\ handlerLog = [m \in MsgIds |-> NoMsgLog]
    /\ faults = 0
    /\ closing = [p \in Procs |-> IdleClose]
    /\ chat = NoChat
    /\ sched = IdleScheduler({})
    /\ calls = NoCalls

\* ------------------------------------------------------------------ locking
\* A process whose continuation runs in the current event-loop turn: nothing
\* else of that process (timers, I/O callbacks) can run before it.
Locked(p) ==
    \/ connecting[p].pc = "returned"
    \/ closing[p].pc = "done"
    \/ proc[p] = "registering" /\ rmq[p].channel = NoConn
    \/ p = "server" /\ \E s \in 1..MaxScans : scans[s].pc \in {"publish", "send", "resend"}

Alive(p) == proc[p] \notin {"init", "exited"}

Ready(p) == Alive(p) /\ ~Locked(p)

Fault == faults < MaxFaults /\ faults' = faults + 1
NoFault == faults' = faults

Tick ==
    /\ now < MaxTime
    /\ now' = now + 1
    /\ UNCHANGED <<autoMessages, rmq, connecting, proc, connCount, connOpen, chanOpen,
                   consumers, tagCount, msgs, isRunning, scans, lastPubFailed,
                   triggerLog, invocations, handlerLog, faults, closing, chat,
                   sched, calls>>

\* ---------------------------------------------------------- RabbitMQService
\* Mutant: the delay is armed but never doubled.
ScheduleReconnectFlat(c) ==
    IF c.reconnectTimer THEN c
    ELSE [c EXCEPT !.timerDelay = c.reconnectDelayMs,
                   !.lastDelay = c.reconnectDelayMs,
                   !.reconnectTimer = TRUE,
                   !.timers = @ + 1]

\* Mutant: a timer is armed whether or not one is pending.
ScheduleReconnectUnguarded(c) ==
    [c EXCEPT !.timerDelay = c.reconnectDelayMs,
              !.lastDelay = c.reconnectDelayMs,
              !.reconnectDelayMs = Min(c.reconnectDelayMs * 2, CapDelayMs),
              !.reconnectTimer = TRUE,
              !.timers = @ + 1]

\* scheduleReconnect(): no-op while a timer is pending; otherwise arm a timer
\* with the current delay and double the delay up to the cap.
ScheduleReconnect(c) ==
    IF c.reconnectTimer THEN c
    ELSE [c EXCEPT !.timerDelay = c.reconnectDelayMs,
                   !.lastDelay = c.reconnectDelayMs,
                   !.reconnectDelayMs = Min(c.reconnectDelayMs * 2, CapDelayMs),
                   !.reconnectTimer = TRUE,
                   !.timers = @ + 1]

\* Mutant: the backoff is left as it has grown.
KeepBackoff(c) == [c EXCEPT !.lastDelay = 0]

\* connect(): this.reconnectDelayMs = 1000 once the queue is asserted.
ResetBackoff(c) == [c EXCEPT !.reconnectDelayMs = BaseDelayMs, !.lastDelay = 0]

\* Mutant: a remembered handler is not resumed.
NeverResumes(c) == FALSE

\* connect(): if (this.consumerHandler) await this.startConsumer(...)
ResumesConsumer(c) == c.consumerHandler

\* invalidateChannel()
InvalidateChannel(c) == [c EXCEPT !.channel = NoConn]

\* Mutant: the handler drops the channel and schedules nothing.
OnCloseSilent(c) == InvalidateChannel(c)

\* The "close" handlers connect() attaches to every connection and channel.
OnClose(c) == ScheduleReconnect(InvalidateChannel(c))

\* connect(): the catch and finally blocks.
ConnectFailed(c) == [ScheduleReconnect(c) EXCEPT !.isConnecting = FALSE, !.attempts = @ - 1]

\* connect(): the finally block after a normal return.
ConnectSucceeded(c) == [c EXCEPT !.isConnecting = FALSE, !.attempts = @ - 1]

\* The promise of connect() settles: the timer callback ignores the outcome,
\* every other caller resumes in the same turn.
Returned(cn, ok) ==
    IF cn.caller = "timer" THEN IdleConnect
    ELSE [cn EXCEPT !.pc = "returned", !.ok = ok]

\* Mutant: connect() goes on whether or not another call is in progress.
NeverBusy(c) == FALSE

\* connect(): if (this.isConnecting) return;
ConnectBusy(c) == c.isConnecting

\* connect(): this.isConnecting = true
Entered(c) == [c EXCEPT !.isConnecting = TRUE, !.attempts = @ + 1]

\* connect() entered with isConnecting = false: the flag is set and
\* amqp.connect is awaited.
EnterConnect(p, caller, s) ==
    /\ rmq' = [rmq EXCEPT ![p] = Entered(@)]
    /\ connecting' = [connecting EXCEPT ![p] =
                        [pc |-> "amqp", caller |-> caller, scan |-> s, ok |-> FALSE]]

\* Broker: the unacknowledged messages of channel n of process p go back to
\* the queue when the channel goes away.
Requeued(p, chs) ==
    [m \in 1..Len(msgs) |->
        IF msgs[m].st = "unacked" /\ msgs[m].proc = p /\ msgs[m].ch \in chs
        THEN [msgs[m] EXCEPT !.st = "ready", !.proc = "none", !.ch = NoConn, !.tag = 0]
        ELSE msgs[m]]

\* Broker: channels chs of process p are closed.
ChannelsDown(p, chs) ==
    /\ chanOpen' = [chanOpen EXCEPT ![p] = @ \ chs]
    /\ consumers' = [consumers EXCEPT ![p] =
                        [n \in ConnIds |-> IF n \in chs THEN 0 ELSE @[n]]]
    /\ msgs' = Requeued(p, chs)

\* server.ts / message-consumer.ts: the process awaits RabbitMQService.connect().
BootConnect(p) ==
    /\ proc[p] = "init"
    /\ proc' = [proc EXCEPT ![p] = "boot"]
    /\ EnterConnect(p, "boot", 0)
    /\ UNCHANGED <<now, autoMessages, connCount, connOpen, chanOpen, consumers,
                   tagCount, msgs, isRunning, scans, lastPubFailed, triggerLog,
                   invocations, handlerLog, faults, closing, chat,
                   sched, calls>>

\* amqp.connect resolves: the connection is stored, its handlers are attached
\* and createChannel is awaited.
AmqpConnectOk(p) ==
    /\ Ready(p)
    /\ connecting[p].pc = "amqp"
    /\ connCount[p] < MaxConns
    /\ LET n == connCount[p] + 1 IN
        /\ connCount' = [connCount EXCEPT ![p] = n]
        /\ connOpen' = [connOpen EXCEPT ![p] = @ \cup {n}]
        /\ rmq' = [rmq EXCEPT ![p].connection = n]
    /\ connecting' = [connecting EXCEPT ![p].pc = "channel"]
    /\ UNCHANGED <<now, autoMessages, proc, chanOpen, consumers, tagCount, msgs,
                   isRunning, scans, lastPubFailed, triggerLog, invocations,
                   handlerLog, faults, closing, chat,
                   sched, calls>>

\* amqp.connect rejects (broker unreachable).
AmqpConnectFail(p) ==
    /\ Ready(p)
    /\ connecting[p].pc = "amqp"
    /\ \/ Fault
       \/ connCount[p] = MaxConns /\ NoFault
    /\ rmq' = [rmq EXCEPT ![p] = ConnectFailed(@)]
    /\ connecting' = [connecting EXCEPT ![p] = Returned(@, FALSE)]
    /\ UNCHANGED <<now, autoMessages, proc, connCount, connOpen, chanOpen, consumers,
                   tagCount, msgs, isRunning, scans, lastPubFailed, triggerLog,
                   invocations, handlerLog, closing, chat,
                   sched, calls>>

\* createChannel and assertQueue resolve: the channel is stored with its
\* handlers, the backoff is reset, and a remembered consumer is resumed.
CreateChannelOk(p) ==
    /\ Ready(p)
    /\ connecting[p].pc = "channel"
    /\ rmq[p].connection \in connOpen[p]
    /\ LET n == rmq[p].connection
           c == ResetBackoff([rmq[p] EXCEPT !.channel = n])
       IN
        /\ chanOpen' = [chanOpen EXCEPT ![p] = @ \cup {n}]
        /\ IF ResumesConsumer(c)
           THEN /\ rmq' = [rmq EXCEPT ![p] = c]
                /\ connecting' = [connecting EXCEPT ![p].pc = "consume"]
           ELSE /\ rmq' = [rmq EXCEPT ![p] = ConnectSucceeded(c)]
                /\ connecting' = [connecting EXCEPT ![p] = Returned(@, TRUE)]
    /\ UNCHANGED <<now, autoMessages, proc, connCount, connOpen, consumers, tagCount,
                   msgs, isRunning, scans, lastPubFailed, triggerLog, invocations,
                   handlerLog, faults, closing, chat,
                   sched, calls>>

\* createChannel rejects: the connection was lost while it was pending.
CreateChannelFail(p) ==
    /\ Ready(p)
    /\ connecting[p].pc = "channel"
    /\ rmq[p].connection \notin connOpen[p]
    /\ rmq' = [rmq EXCEPT ![p] = ConnectFailed(@)]
    /\ connecting' = [connecting EXCEPT ![p] = Returned(@, FALSE)]
    /\ UNCHANGED <<now, autoMessages, proc, connCount, connOpen, chanOpen, consumers,
                   tagCount, msgs, isRunning, scans, lastPubFailed, triggerLog,
                   invocations, handlerLog, faults, closing, chat,
                   sched, calls>>

\* startConsumer() inside connect(): assertQueue, prefetch(1) and consume
\* resolve on the current channel.
StartConsumerOk(p) ==
    /\ Ready(p)
    /\ connecting[p].pc = "consume"
    /\ rmq[p].channel # NoConn
    /\ consumers' = [consumers EXCEPT ![p][rmq[p].channel] = @ + 1]
    /\ rmq' = [rmq EXCEPT ![p] = ConnectSucceeded(@)]
    /\ connecting' = [connecting EXCEPT ![p] = Returned(@, TRUE)]
    /\ UNCHANGED <<now, autoMessages, proc, connCount, connOpen, chanOpen, tagCount,
                   msgs, isRunning, scans, lastPubFailed, triggerLog, invocations,
                   handlerLog, faults, closing, chat,
                   sched, calls>>

\* startConsumer() inside connect() throws: the channel was invalidated
\* while it was pending.
StartConsumerFail(p) ==
    /\ Ready(p)
    /\ connecting[p].pc = "consume"
    /\ rmq[p].channel = NoConn
    /\ rmq' = [rmq EXCEPT ![p] = ConnectFailed(@)]
    /\ connecting' = [connecting EXCEPT ![p] = Returned(@, FALSE)]
    /\ UNCHANGED <<now, autoMessages, proc, connCount, connOpen, chanOpen, consumers,
                   tagCount, msgs, isRunning, scans, lastPubFailed, triggerLog,
                   invocations, handlerLog, faults, closing, chat,
                   sched, calls>>

\* The reconnect timer fires: the timer is cleared and connect() is called.
TimerFires(p) ==
    /\ Ready(p)
    /\ rmq[p].reconnectTimer
    /\ LET c == [rmq[p] EXCEPT !.reconnectTimer = FALSE, !.timerDelay = 0,
                               !.timers = @ - 1] IN
        IF ConnectBusy(c)
        THEN /\ rmq' = [rmq EXCEPT ![p] = c]
             /\ UNCHANGED connecting
        ELSE /\ rmq' = [rmq EXCEPT ![p] = Entered(c)]
             /\ connecting' = [connecting EXCEPT ![p] =
                                [pc |-> "amqp", caller |-> "timer", scan |-> 0, ok |-> FALSE]]
    /\ UNCHANGED <<now, autoMessages, proc, connCount, connOpen, chanOpen, consumers,
                   tagCount, msgs, isRunning, scans, lastPubFailed, triggerLog,
                   invocations, handlerLog, faults, closing, chat,
                   sched, calls>>

\* The broker or the network drops connection n: its channel goes with it and
\* the "close" handlers of both run.
ConnectionClosed(p, n) ==
    /\ Ready(p)
    /\ n \in connOpen[p]
    /\ Fault
    /\ connOpen' = [connOpen EXCEPT ![p] = @ \ {n}]
    /\ ChannelsDown(p, {n})
    /\ rmq' = [rmq EXCEPT ![p] = OnClose(@)]
    /\ UNCHANGED <<now, autoMessages, connecting, proc, connCount, tagCount,
                   isRunning, scans, lastPubFailed, triggerLog, invocations, handlerLog,
                   closing, chat,
                   sched, calls>>

\* The broker closes channel n (a channel error); the connection stays open.
ChannelClosed(p, n) ==
    /\ Ready(p)
    /\ n \in chanOpen[p]
    /\ Fault
    /\ ChannelsDown(p, {n})
    /\ rmq' = [rmq EXCEPT ![p] = OnClose(@)]
    /\ UNCHANGED <<now, autoMessages, connecting, proc, connCount, connOpen, tagCount,
                   isRunning, scans, lastPubFailed, triggerLog, invocations, handlerLog,
                   closing, chat,
                   sched, calls>>

\* process.exit: the operating system closes the process's sockets.
ExitProcess(p) ==
    /\ proc' = [proc EXCEPT ![p] = "exited"]
    /\ connOpen' = [connOpen EXCEPT ![p] = {}]
    /\ ChannelsDown(p, ConnIds)
    /\ connecting' = [connecting EXCEPT ![p] = IdleConnect]

\* The process ends: what it held in memory (the statics, pending timers,
\* running callbacks) goes with it.
Terminate(p) ==
    /\ ExitProcess(p)
    /\ closing' = [closing EXCEPT ![p] = IdleClose]
    /\ rmq' = [rmq EXCEPT ![p] = InitService]
    /\ invocations' = [i \in 1..MaxInv |->
                        IF invocations[i].proc = p THEN IdleInvocation ELSE invocations[i]]

\* close() is called (SIGINT / SIGTERM): the timer is cleared and the channel
\* the client holds, if any, is closed first, else the connection.
CloseStart(p) ==
    /\ Ready(p)
    /\ proc[p] = "running"
    /\ closing[p].pc = "idle"
    /\ LET c == [rmq[p] EXCEPT !.reconnectTimer = FALSE, !.timerDelay = 0,
                               !.timers = IF rmq[p].reconnectTimer THEN @ - 1 ELSE @] IN
        /\ rmq' = [rmq EXCEPT ![p] = c]
        /\ closing' = [closing EXCEPT ![p] =
                IF c.channel # NoConn THEN [pc |-> "channel", target |-> c.channel]
                ELSE IF c.connection # NoConn
                THEN [pc |-> "connection", target |-> c.connection]
                ELSE [pc |-> "done", target |-> NoConn]]
    /\ UNCHANGED <<now, autoMessages, connecting, proc, connCount, connOpen, chanOpen,
                   consumers, tagCount, msgs, isRunning, scans, lastPubFailed,
                   triggerLog, invocations, handlerLog, faults, chat,
                   sched, calls>>

\* close(): this.channel = null; this.connection = null
ClearedService(c) == [c EXCEPT !.channel = NoConn, !.connection = NoConn]

\* close(): channel.close() settles.  When the channel was still open its
\* "close" handler runs first; close() then goes on to the connection.  A
\* channel that had closed already makes the call throw into the catch.
CloseChannelDone(p) ==
    /\ Ready(p)
    /\ closing[p].pc = "channel"
    /\ LET n == closing[p].target IN
        IF n \in chanOpen[p]
        THEN /\ ChannelsDown(p, {n})
             /\ LET c == OnClose(rmq[p]) IN
                 IF c.connection # NoConn
                 THEN /\ rmq' = [rmq EXCEPT ![p] = c]
                      /\ closing' = [closing EXCEPT ![p] =
                                [pc |-> "connection", target |-> c.connection]]
                 ELSE /\ rmq' = [rmq EXCEPT ![p] = ClearedService(c)]
                      /\ closing' = [closing EXCEPT ![p] = [pc |-> "done", target |-> NoConn]]
        ELSE /\ closing' = [closing EXCEPT ![p] = [pc |-> "done", target |-> NoConn]]
             /\ UNCHANGED <<rmq, chanOpen, consumers, msgs>>
    /\ UNCHANGED <<now, autoMessages, connecting, proc, connCount, connOpen, tagCount,
                   isRunning, scans, lastPubFailed, triggerLog, invocations,
                   handlerLog, faults, chat,
                   sched, calls>>

\* close(): connection.close() settles.  When the connection was still open
\* its "close" handlers run first and close() then clears both fields.
CloseConnectionDone(p) ==
    /\ Ready(p)
    /\ closing[p].pc = "connection"
    /\ closing' = [closing EXCEPT ![p] = [pc |-> "done", target |-> NoConn]]
    /\ LET n == closing[p].target IN
        IF n \in connOpen[p]
        THEN /\ connOpen' = [connOpen EXCEPT ![p] = @ \ {n}]
             /\ ChannelsDown(p, {n})
             /\ rmq' = [rmq EXCEPT ![p] = ClearedService(OnClose(@))]
        ELSE UNCHANGED <<rmq, connOpen, chanOpen, consumers, msgs>>
    /\ UNCHANGED <<now, autoMessages, connecting, proc, connCount, tagCount,
                   isRunning, scans, lastPubFailed, triggerLog, invocations,
                   handlerLog, faults, chat,
                   sched, calls>>

\* The shutdown handler resumes after close() and calls process.exit(0): the
\* process and everything it held in memory are gone.
ExitAfterClose(p) ==
    /\ closing[p].pc = "done"
    /\ proc[p] = "running"
    /\ Terminate(p)
    /\ UNCHANGED <<now, autoMessages, connCount, tagCount, isRunning, scans,
                   lastPubFailed, triggerLog, handlerLog, faults, chat,
                   sched, calls>>

\* The boot sequence resumes after its connect().  A failure ends the
\* process; the server then starts its jobs, the consumer calls
\* consumeMessages(handler), which remembers the handler and awaits
\* startConsumer on the channel just opened.
BootResume(p) ==
    /\ connecting[p].pc = "returned"
    /\ connecting[p].caller = "boot"
    /\ IF ~connecting[p].ok
       THEN /\ ExitProcess(p)
            /\ UNCHANGED rmq
       ELSE /\ connecting' = [connecting EXCEPT ![p] = IdleConnect]
            /\ IF p = "server"
               THEN /\ proc' = [proc EXCEPT ![p] = "running"]
                    /\ UNCHANGED rmq
               ELSE /\ proc' = [proc EXCEPT ![p] = "registering"]
                    /\ rmq' = [rmq EXCEPT ![p].consumerHandler = TRUE]
            /\ UNCHANGED <<connOpen, chanOpen, consumers, msgs>>
    /\ UNCHANGED <<now, autoMessages, connCount, tagCount, isRunning, scans,
                   lastPubFailed, triggerLog, invocations, handlerLog, faults,
                   closing, chat,
                   sched, calls>>

\* consumeMessages(): startConsumer's assertQueue, prefetch(1) and consume
\* resolve on the boot channel.
RegisterOk(p) ==
    /\ Ready(p)
    /\ proc[p] = "registering"
    /\ consumers' = [consumers EXCEPT ![p][rmq[p].channel] = @ + 1]
    /\ proc' = [proc EXCEPT ![p] = "running"]
    /\ UNCHANGED <<now, autoMessages, rmq, connecting, connCount, connOpen, chanOpen,
                   tagCount, msgs, isRunning, scans, lastPubFailed, triggerLog,
                   invocations, handlerLog, faults, closing, chat,
                   sched, calls>>

\* consumeMessages() throws because the boot channel closed under it (the
\* pending call is rejected in the turn of the close event):
\* startMessageConsumer exits the process.
RegisterFail(p) ==
    /\ proc[p] = "registering"
    /\ rmq[p].channel = NoConn
    /\ ExitProcess(p)
    /\ UNCHANGED <<now, autoMessages, rmq, connCount, tagCount, isRunning, scans,
                   lastPubFailed, triggerLog, invocations, handlerLog, faults,
                   closing, chat,
                   sched, calls>>

\* ------------------------------------------------------------ QueueManager
\* Mutant: the guard is not consulted.
GuardOff == FALSE

\* The re-entrancy guard both triggers test before starting a scan.
GuardBusy == isRunning

\* Mutant: the query does not look at sendDate.
DueQueryAnyDate(t0) ==
    {r \in RecIds : ~autoMessages[r].isQueued /\ ~autoMessages[r].isSent}

\* AutoMessage.find({sendDate <= now, isQueued: false, isSent: false})
DueQuery(t0) ==
    {r \in RecIds : /\ autoMessages[r].sendDate <= t0
                    /\ ~autoMessages[r].isQueued
                    /\ ~autoMessages[r].isSent}

\* Mutant: the date is stored but the flag is not.
MarkQueuedNoFlag(rec, at) == [rec EXCEPT !.queuedAt = at]

\* autoMessage.isQueued = true; autoMessage.queuedAt = new Date(); save()
MarkQueued(rec, at) == [rec EXCEPT !.isQueued = TRUE, !.queuedAt = at]

\* Mutant: a failure leaves the loop.
AbortOnFailure(sc, r) ==
    [sc EXCEPT !.failedIds = Append(@, r), !.idx = Len(sc.found) + 1, !.pc = "publish"]

\* The catch of the loop body: the id is recorded and the loop goes on.
AfterFailure(sc, r) ==
    [sc EXCEPT !.failedIds = Append(@, r), !.idx = @ + 1, !.pc = "publish"]

\* Mutant: instead of surfacing the error the call goes back to its retry.
RetryAgain(sc) == [sc EXCEPT !.pc = "resend"]

\* The scan's view of a failed publishMessage.
PublishFailed(sc) ==
    LET r == sc.found[sc.idx] IN
    [AfterFailure(sc, r) EXCEPT !.pubFailed = @ \cup {r}]

FreeScan == CHOOSE s \in 1..MaxScans :
                /\ scans[s].pc = "idle"
                /\ \A u \in 1..MaxScans : scans[u].pc = "idle" => s <= u

\* A trigger that passes the guard: the flag is set and the due-query issued.
StartScan ==
    /\ \E s \in 1..MaxScans : scans[s].pc = "idle"
    /\ isRunning' = TRUE
    /\ scans' = [scans EXCEPT ![FreeScan] =
                    [IdleScan EXCEPT !.pc = "find", !.t0 = now,
                                     !.threw = scans[FreeScan].threw]]
    /\ UNCHANGED triggerLog

\* The cron callback of QueueManager.start().
CronTick ==
    /\ Ready("server")
    /\ proc["server"] = "running"
    /\ IF GuardBusy
       THEN /\ triggerLog' = [triggerLog EXCEPT !.cronDropped = TRUE]
            /\ UNCHANGED <<isRunning, scans>>
       ELSE StartScan
    /\ UNCHANGED <<now, autoMessages, rmq, connecting, proc, connCount, connOpen,
                   chanOpen, consumers, tagCount, msgs, lastPubFailed, invocations,
                   handlerLog, faults, closing, chat,
                   sched, calls>>

\* processScheduledMessagesManually()
ManualTrigger ==
    /\ Ready("server")
    /\ proc["server"] = "running"
    /\ IF GuardBusy
       THEN /\ triggerLog' = [triggerLog EXCEPT !.manualRejected = TRUE]
            /\ UNCHANGED <<isRunning, scans>>
       ELSE StartScan
    /\ UNCHANGED <<now, autoMessages, rmq, connecting, proc, connCount, connOpen,
                   chanOpen, consumers, tagCount, msgs, lastPubFailed, invocations,
                   handlerLog, faults, closing, chat,
                   sched, calls>>

\* The due-query resolves: the loop starts (an empty result returns at once).
FindOk(s) ==
    /\ Ready("server")
    /\ scans[s].pc = "find"
    /\ LET due == SortedSeq(DueQuery(scans[s].t0)) IN
        scans' = [scans EXCEPT ![s].found = due, ![s].nFound = Len(due),
                               ![s].idx = 1, ![s].pc = "publish"]
    /\ UNCHANGED <<now, autoMessages, rmq, connecting, proc, connCount, connOpen,
                   chanOpen, consumers, tagCount, msgs, isRunning, lastPubFailed,
                   triggerLog, invocations, handlerLog, faults, closing, chat,
                   sched, calls>>

\* Mutant: the guard is released after the awaited scan, not in a finally
\* block, so a scan that throws leaves it set.
GuardLeftSet == TRUE

\* finally { this.isRunning = false; }: the guard after a scan that threw.
GuardAfterThrow == FALSE

\* The due-query rejects: the scan rethrows and the trigger's finally block
\* releases the guard.
FindFail(s) ==
    /\ Ready("server")
    /\ scans[s].pc = "find"
    /\ Fault
    /\ scans' = [scans EXCEPT ![s] = [IdleScan EXCEPT !.threw = TRUE]]
    /\ isRunning' = GuardAfterThrow
    /\ UNCHANGED lastPubFailed
    /\ UNCHANGED <<now, autoMessages, rmq, connecting, proc, connCount, connOpen,
                   chanOpen, consumers, tagCount, msgs, triggerLog, invocations,
                   handlerLog, closing, chat,
                   sched, calls>>

\* The loop is over: the result is returned and the guard released.
EndScan(s) ==
    /\ scans[s].pc = "publish"
    /\ scans[s].idx > Len(scans[s].found)
    /\ scans' = [scans EXCEPT ![s] = IdleScan]
    /\ isRunning' = FALSE
    /\ lastPubFailed' = scans[s].pubFailed
    /\ UNCHANGED <<now, autoMessages, rmq, connecting, proc, connCount, connOpen,
                   chanOpen, consumers, tagCount, msgs, triggerLog, invocations,
                   handlerLog, faults, closing, chat,
                   sched, calls>>

\* publishMessage() is called for the next record: ensureChannel() either
\* finds a channel, or calls connect(), which returns at once while another
\* connect() is in progress (the channel is then still missing).
Publish(s) ==
    /\ scans[s].pc = "publish"
    /\ scans[s].idx <= Len(scans[s].found)
    /\ LET r  == scans[s].found[scans[s].idx]
           sc == [scans[s] EXCEPT !.attempted = @ \cup {r},
                                  !.sends = 0, !.reconnects = 0]
       IN
        IF rmq["server"].channel # NoConn
        THEN /\ scans' = [scans EXCEPT ![s] = [sc EXCEPT !.pc = "send"]]
             /\ UNCHANGED <<rmq, connecting>>
        ELSE IF ConnectBusy(rmq["server"])
        THEN /\ scans' = [scans EXCEPT ![s] = PublishFailed(sc)]
             /\ UNCHANGED <<rmq, connecting>>
        ELSE /\ scans' = [scans EXCEPT ![s] = [sc EXCEPT !.pc = "ensure"]]
             /\ EnterConnect("server", "scan", s)
    /\ UNCHANGED <<now, autoMessages, proc, connCount, connOpen, chanOpen, consumers,
                   tagCount, msgs, isRunning, lastPubFailed, triggerLog, invocations,
                   handlerLog, faults, closing, chat,
                   sched, calls>>

\* The broker accepts a payload on message_sending_queue.
Enqueued(r) == Append(msgs, [rec |-> r, st |-> "ready", proc |-> "none",
                             ch |-> NoConn, tag |-> 0])

\* publishMessage resolved: the record is marked in memory and save() awaited.
Published(sc) ==
    [sc EXCEPT !.pc = "save", !.queuedAt = now, !.pubOk = @ \cup {sc.found[sc.idx]}]

\* publishMessage(): the first sendToQueue.  A false return is caught and
\* followed by one connect() and one retry.
Send(s) ==
    /\ scans[s].pc = "send"
    /\ \/ /\ NoFault
          /\ Len(msgs) < MaxRecords + MaxFaults
          /\ msgs' = Enqueued(scans[s].found[scans[s].idx])
          /\ scans' = [scans EXCEPT ![s] = Published([@ EXCEPT !.sends = @ + 1])]
          /\ UNCHANGED <<rmq, connecting>>
       \/ /\ Fault
          /\ UNCHANGED msgs
          /\ IF ConnectBusy(rmq["server"])
             THEN /\ scans' = [scans EXCEPT ![s].pc = "resend", ![s].sends = @ + 1]
                  /\ UNCHANGED <<rmq, connecting>>
             ELSE /\ scans' = [scans EXCEPT ![s].pc = "retry", ![s].sends = @ + 1,
                                           ![s].reconnects = @ + 1]
                  /\ EnterConnect("server", "scan", s)
    /\ UNCHANGED <<now, autoMessages, proc, connCount, connOpen, chanOpen, consumers,
                   tagCount, isRunning, lastPubFailed, triggerLog, invocations, handlerLog,
                   closing, chat,
                   sched, calls>>

\* publishMessage(): the retry after connect().  A missing channel throws, a
\* second false return rethrows the first error.
Resend(s) ==
    /\ scans[s].pc = "resend"
    /\ \/ /\ rmq["server"].channel # NoConn
          /\ NoFault
          /\ Len(msgs) < MaxRecords + MaxFaults
          /\ msgs' = Enqueued(scans[s].found[scans[s].idx])
          /\ scans' = [scans EXCEPT ![s] = Published([@ EXCEPT !.sends = @ + 1])]
       \/ /\ rmq["server"].channel # NoConn
          /\ Fault
          /\ scans' = [scans EXCEPT ![s] = PublishFailed([@ EXCEPT !.sends = @ + 1])]
          /\ UNCHANGED msgs
       \/ /\ rmq["server"].channel = NoConn
          /\ NoFault
          /\ scans' = [scans EXCEPT ![s] = PublishFailed(@)]
          /\ UNCHANGED msgs
    /\ UNCHANGED <<now, autoMessages, rmq, connecting, proc, connCount, connOpen,
                   chanOpen, consumers, tagCount, isRunning, lastPubFailed, triggerLog,
                   invocations, handlerLog, closing, chat,
                   sched, calls>>

\* publishMessage() resumes after the connect() it awaited, in ensureChannel
\* ("ensure") or in the catch block ("retry").
ScanResume(s) ==
    /\ connecting["server"].pc = "returned"
    /\ connecting["server"].caller = "scan"
    /\ connecting["server"].scan = s
    /\ connecting' = [connecting EXCEPT !["server"] = IdleConnect]
    /\ LET ok == connecting["server"].ok IN
       scans' = [scans EXCEPT ![s] =
          IF scans[s].pc = "ensure"
          THEN IF ok /\ rmq["server"].channel # NoConn
               THEN [@ EXCEPT !.pc = "send"] ELSE PublishFailed(@)
          ELSE IF ok THEN [@ EXCEPT !.pc = "resend"] ELSE PublishFailed(@)]
    /\ UNCHANGED <<now, autoMessages, rmq, proc, connCount, connOpen, chanOpen,
                   consumers, tagCount, msgs, isRunning, lastPubFailed, triggerLog,
                   invocations, handlerLog, faults, closing, chat,
                   sched, calls>>

\* Mutant: the id is pushed but the counter is not incremented.
PushedNotCounted(sc, r) ==
    [sc EXCEPT !.queuedIds = Append(@, r), !.idx = @ + 1, !.pc = "publish"]

\* result.queued += 1; result.queuedIds.push(id); the loop goes on.
Counted(sc, r) ==
    [sc EXCEPT !.queued = @ + 1, !.queuedIds = Append(@, r),
               !.idx = @ + 1, !.pc = "publish"]

\* save() resolves: the record is Queued in the collection and counted.
SaveOk(s) ==
    /\ Ready("server")
    /\ scans[s].pc = "save"
    /\ LET r == scans[s].found[scans[s].idx] IN
        /\ autoMessages' = [autoMessages EXCEPT ![r] = MarkQueued(@, scans[s].queuedAt)]
        /\ scans' = [scans EXCEPT ![s] = Counted([@ EXCEPT !.marked = @ \cup {r}], r)]
    /\ UNCHANGED <<now, rmq, connecting, proc, connCount, connOpen, chanOpen,
                   consumers, tagCount, msgs, isRunning, lastPubFailed, triggerLog,
                   invocations, handlerLog, faults, closing, chat,
                   sched, calls>>

\* save() rejects: the loop's catch records the id; the stored record is as
\* it was.
SaveFail(s) ==
    /\ Ready("server")
    /\ scans[s].pc = "save"
    /\ Fault
    /\ LET r == scans[s].found[scans[s].idx] IN
        scans' = [scans EXCEPT ![s] =
                    [AfterFailure(@, r) EXCEPT !.saveFailed = @ \cup {r}]]
    /\ UNCHANGED <<now, autoMessages, rmq, connecting, proc, connCount, connOpen,
                   chanOpen, consumers, tagCount, msgs, isRunning, lastPubFailed,
                   triggerLog, invocations, handlerLog, closing, chat,
                   sched, calls>>

\* ------------------------------------------------------ ConversationService
Users == {"alice", "bob", "carol"}

\* Mutant: the lookup never matches.
FindsNothing(u1, u2) == 0

\* Conversation.findOne({participants: {$all: [userId1, userId2]}}): the id
\* of the first conversation of both users, 0 when there is none.
FindConversation(u1, u2) ==
    LET C == {c \in 1..Len(chat.conversations) : {u1, u2} \subseteq chat.conversations[c]}
    IN  IF C = {} THEN 0 ELSE CHOOSE c \in C : \A d \in C : c <= d

\* new Conversation({participants: [userId1, userId2]})
NewConversation(u1, u2) == {u1, u2}

\* User.find({_id: {$in: [userId1, userId2]}, isActive: true}) returns two
\* users.
BothActive(active, u1, u2) == Cardinality({u1, u2} \cap active) = 2

\* The call returns id (0: it threw).
CallReturned(c, id) ==
    [c EXCEPT !.pc = "idle", !.a = "none", !.b = "none", !.found = 0,
              !.results = Append(@, id)]

\* createOrGetConversation(a, b) is called and awaits the user query.  A
\* caller asks for any two users first and for the same two again, in
\* either order.
CallStart(a, b) ==
    /\ calls.pc = "idle"
    /\ Len(calls.results) < MaxCalls
    /\ Len(calls.results) > 0 => {a, b} = calls.pair
    /\ calls' = [calls EXCEPT !.pc = "users", !.a = a, !.b = b, !.pair = {a, b}]
    /\ UNCHANGED <<now, autoMessages, rmq, connecting, proc, connCount, connOpen,
                   chanOpen, consumers, tagCount, msgs, isRunning, scans,
                   lastPubFailed, triggerLog, invocations, handlerLog, faults,
                   closing, chat, sched>>

\* The user query resolves: fewer than two active users throw, otherwise the
\* conversation is looked up.
CallUsers ==
    /\ calls.pc = "users"
    /\ calls' = IF BothActive(calls.active, calls.a, calls.b)
                THEN [calls EXCEPT !.pc = "find"]
                ELSE CallReturned(calls, 0)
    /\ UNCHANGED <<now, autoMessages, rmq, connecting, proc, connCount, connOpen,
                   chanOpen, consumers, tagCount, msgs, isRunning, scans,
                   lastPubFailed, triggerLog, invocations, handlerLog, faults,
                   closing, chat, sched>>

\* findOne resolves: a conversation found is returned, otherwise a new one is
\* built and save() awaited.
CallFind ==
    /\ calls.pc = "find"
    /\ LET id == FindConversation(calls.a, calls.b) IN
        calls' = IF id # 0 THEN CallReturned(calls, id)
                 ELSE [calls EXCEPT !.pc = "save"]
    /\ UNCHANGED <<now, autoMessages, rmq, connecting, proc, connCount, connOpen,
                   chanOpen, consumers, tagCount, msgs, isRunning, scans,
                   lastPubFailed, triggerLog, invocations, handlerLog, faults,
                   closing, chat, sched>>

\* save() resolves: the new conversation is in the collection and returned.
CallSave ==
    /\ calls.pc = "save"
    /\ chat' = [chat EXCEPT !.conversations =
                    Append(@, NewConversation(calls.a, calls.b))]
    /\ calls' = [CallReturned(calls, Len(chat.conversations) + 1) EXCEPT
                    !.created = @ + 1]
    /\ UNCHANGED <<now, autoMessages, rmq, connecting, proc, connCount, connOpen,
                   chanOpen, consumers, tagCount, msgs, isRunning, scans,
                   lastPubFailed, triggerLog, invocations, handlerLog, faults,
                   closing, sched>>

\* A datastore call of createOrGetConversation rejects: the call throws.
CallFail ==
    /\ calls.pc \in {"users", "find", "save"}
    /\ Fault
    /\ calls' = CallReturned(calls, 0)
    /\ UNCHANGED <<now, autoMessages, rmq, connecting, proc, connCount, connOpen,
                   chanOpen, consumers, tagCount, msgs, isRunning, scans,
                   lastPubFailed, triggerLog, invocations, handlerLog,
                   closing, chat, sched>>

\* ---------------------------------------------------- broker and consumer
Unacked(p, n) ==
    {m \in 1..Len(msgs) : msgs[m].st = "unacked" /\ msgs[m].proc = p /\ msgs[m].ch = n}

ReadyMsgs == {m \in 1..Len(msgs) : msgs[m].st = "ready"}

FreeInvocation == CHOOSE i \in 1..MaxInv :
                    /\ invocations[i].pc = "idle"
                    /\ \A j \in 1..MaxInv : invocations[j].pc = "idle" => i <= j

\* Broker: with prefetch(1) each consumer of a channel holds at most one
\* unacknowledged message; the head of the queue is delivered and the
\* consume callback of startConsumer() starts the handler.
Deliver(p, n) ==
    /\ Ready(p)
    /\ n \in chanOpen[p]
    /\ Cardinality(Unacked(p, n)) < consumers[p][n]
    /\ ReadyMsgs # {}
    /\ \E i \in 1..MaxInv : invocations[i].pc = "idle"
    /\ LET m   == CHOOSE x \in ReadyMsgs : \A y \in ReadyMsgs : x <= y
           tag == tagCount[p][n] + 1
       IN
        /\ msgs' = [msgs EXCEPT ![m] =
                      [@ EXCEPT !.st = "unacked", !.proc = p, !.ch = n, !.tag = tag]]
        /\ tagCount' = [tagCount EXCEPT ![p][n] = tag]
        /\ invocations' = [invocations EXCEPT ![FreeInvocation] =
                            [pc |-> "conv", msg |-> m, proc |-> p, ch |-> n, tag |-> tag, conv |-> 0]]
        /\ handlerLog' = [handlerLog EXCEPT ![m] =
                            [@ EXCEPT !.deliveries = @ + 1,
                                      !.deliveredAfterFail = handlerLog[m].failed,
                                      !.deliveredAfterReject = handlerLog[m].rejectedOwn]]
    /\ UNCHANGED <<now, autoMessages, rmq, connecting, proc, connCount, connOpen,
                   chanOpen, consumers, isRunning, scans, lastPubFailed, triggerLog, faults,
                   closing, chat,
                   sched, calls>>

\* Mutant: the acknowledgement has no effect.
AckIgnored(msg) == msg

\* channel.ack(msg): the broker drops the message.
Acked(msg) == [msg EXCEPT !.st = "acked"]

\* Mutant: nack with requeue.
NackedRequeue(msg) ==
    [msg EXCEPT !.st = "ready", !.proc = "none", !.ch = NoConn, !.tag = 0]

\* channel.nack(msg, false, false): the broker drops the message, no requeue.
Nacked(msg) == [msg EXCEPT !.st = "rejected"]

\* The messages this.channel.ack / nack with the given tag settles: the
\* delivery holding that tag on the channel the client holds now.
Targets(p, tag) ==
    {m \in Unacked(p, rmq[p].channel) : msgs[m].tag = tag}

\* The end of the consume callback: ack after the handler returned, nack
\* after it threw, both on this.channel as it is now.  With no channel the
\* ack throws a TypeError into the callback's catch, whose nack throws it
\* again: the callback's promise rejects with nobody to handle it, which ends
\* a Node 18 process.  A tag the channel does not know is a channel error, on
\* which the broker closes the channel.
Settle(i, ack) ==
    LET p == invocations[i].proc
        T == Targets(p, invocations[i].tag)
    IN
    IF rmq[p].channel = NoConn
    THEN Terminate(p)
    ELSE /\ invocations' = [invocations EXCEPT ![i] = IdleInvocation]
         /\ UNCHANGED <<proc, connOpen, connecting, closing>>
         /\ IF T # {}
            THEN /\ msgs' = [m \in 1..Len(msgs) |->
                               IF m \in T
                               THEN (IF ack THEN Acked(msgs[m]) ELSE Nacked(msgs[m]))
                               ELSE msgs[m]]
                 /\ UNCHANGED <<chanOpen, consumers, rmq>>
            ELSE /\ ChannelsDown(p, {rmq[p].channel})
                 /\ rmq' = [rmq EXCEPT ![p] = OnClose(@)]

\* The users a record was scheduled for, and its text.
SenderOf(r) == IF r % 2 = 1 THEN "alice" ELSE "bob"
ReceiverOf(r) == IF r % 2 = 1 THEN "bob" ELSE "alice"
ContentOf(r) == r

\* new Message({conversationId, senderId, content, messageType}).save()
NewMessage(conv, sender, content, type) ==
    [conversationId |-> conv, senderId |-> sender, content |-> content,
     messageType |-> type]

\* Mutant: with the conversation at hand the handler goes straight to
\* marking the record.
SkipsMessage(found) == "mark"

\* createOrGetConversation after its lookup: save a new conversation when
\* none was found, else return to the handler, which calls createMessage.
AfterLookup(found) == IF found = 0 THEN "newconv" ELSE "msg"

\* The handler of message-consumer.ts, one awaited step at a time:
\* createOrGetConversation looks the conversation up ("conv") and saves a
\* new one when it found none ("newconv"); createMessage stores the message
\* ("msg"; its lookups, the search index and the lastMessage update are part
\* of that step); the emit follows in the same turn.
HandlerStep(i) ==
    /\ invocations[i].pc \in {"conv", "newconv", "msg"}
    /\ Ready(invocations[i].proc)
    /\ LET r == msgs[invocations[i].msg].rec
           found == FindConversation(SenderOf(r), ReceiverOf(r))
       IN
        CASE invocations[i].pc = "conv" ->
                /\ invocations' = [invocations EXCEPT
                        ![i].conv = found,
                        ![i].pc = AfterLookup(found)]
                /\ UNCHANGED chat
          [] invocations[i].pc = "newconv" ->
                /\ chat' = [chat EXCEPT !.conversations =
                                Append(@, NewConversation(SenderOf(r), ReceiverOf(r)))]
                /\ invocations' = [invocations EXCEPT
                        ![i].conv = Len(chat.conversations) + 1, ![i].pc = "msg"]
          [] invocations[i].pc = "msg" ->
                /\ chat' = [chat EXCEPT !.messages = @ \cup
                        {NewMessage(invocations[i].conv, SenderOf(r), ContentOf(r), "auto")}]
                /\ invocations' = [invocations EXCEPT ![i].pc = "mark"]
    /\ UNCHANGED <<now, autoMessages, rmq, connecting, proc, connCount, connOpen,
                   chanOpen, consumers, tagCount, msgs, isRunning, scans, lastPubFailed,
                   triggerLog, handlerLog, faults, closing,
                   sched, calls>>

\* Mutant: the flag is set without the date.
MarkSentNoDate(rec, at) == [rec EXCEPT !.isSent = TRUE]

\* AutoMessage.findByIdAndUpdate(id, {isSent: true, sentAt: new Date()})
MarkSent(rec, at) == [rec EXCEPT !.isSent = TRUE, !.sentAt = at]

\* The last step resolves: the record is marked sent, the handler returns
\* and the callback acknowledges.
HandlerDone(i) ==
    /\ invocations[i].pc = "mark"
    /\ Ready(invocations[i].proc)
    /\ autoMessages' = [autoMessages EXCEPT ![msgs[invocations[i].msg].rec] =
                            MarkSent(@, now)]
    /\ Settle(i, TRUE)
    /\ LET m == invocations[i].msg IN
        handlerLog' = [handlerLog EXCEPT ![m] =
            [@ EXCEPT !.succeeded = TRUE,
                      !.ackedOwn = @ \/
                          (/\ rmq[invocations[i].proc].channel = invocations[i].ch
                           /\ m \in Targets(invocations[i].proc, invocations[i].tag))]]
    /\ UNCHANGED <<now, connCount, tagCount, isRunning, scans, lastPubFailed,
                   triggerLog, faults, chat, sched, calls>>

\* A step of the handler rejects: the handler rethrows and the callback
\* rejects the message.
HandlerFail(i) ==
    /\ invocations[i].pc \in {"conv", "newconv", "msg", "mark"}
    /\ Ready(invocations[i].proc)
    /\ Fault
    /\ Settle(i, FALSE)
    /\ LET m   == invocations[i].msg
           r   == msgs[m].rec
           own == /\ rmq[invocations[i].proc].channel = invocations[i].ch
                  /\ m \in Targets(invocations[i].proc, invocations[i].tag)
       IN handlerLog' = [handlerLog EXCEPT ![m] =
            [@ EXCEPT !.failed = TRUE,
                      !.rejectedOwn = @ \/ own,
                      !.rejectedFirst = @ \/ (own /\ handlerLog[m].deliveries = 1),
                      !.queuedAtFail = @ \/
                          (autoMessages[r].isQueued /\ ~autoMessages[r].isSent)]]
    /\ UNCHANGED <<now, autoMessages, connCount, tagCount, isRunning, scans,
                   lastPubFailed, triggerLog, chat, sched, calls>>


\* --------------------------------------------------------- MessageScheduler
UserIds == 1..MaxUsers

\* Math.random() yields a value of [0, 1); the model draws it from these
\* values, counted in RandomDen-ths.
RandomDen == 24
RandomDraws == {0, 8, 12, 16, 23}

\* Math.floor(Math.random() * n) for the draw k / RandomDen.
FloorRandom(k, n) == (k * n) \div RandomDen

\* User.find({isActive: true}).lean(): the active users as an array.
ActiveUsers(U) == SortedSeq(U)

\* Mutant: the exchange writes array[i] only.
SwapOverwrites(a, i, j) == [a EXCEPT ![i] = a[j]]

\* [array[i], array[j]] = [array[j], array[i]]
Swap(a, i, j) == [a EXCEPT ![i] = a[j], ![j] = a[i]]

\* shuffleArray(): for i from the last index down to the second, swap
\* array[i] with array[j], j = floor(random * (i + 1)).  Indices count from 1
\* here, so position i draws among the first i positions.
RECURSIVE ShuffleFrom(_, _, _)
ShuffleFrom(a, i, ks) ==
    IF i <= 1 THEN a
    ELSE ShuffleFrom(Swap(a, i, FloorRandom(ks[i], i) + 1), i - 1, ks)

ShuffleArray(a, ks) == ShuffleFrom(a, Len(a), ks)

\* Mutant: the loop runs while i < length.
PairStartsToEnd(n) == {i \in 1..n : i % 2 = 1}

\* for (let i = 0; i < shuffledUsers.length - 1; i += 2): the positions
\* (counted from 1) at which a pair starts.
PairStarts(n) == {i \in 1..n : i % 2 = 1 /\ i < n}

\* Mutant: the receiver is read at the sender's position.
ReceiverSame(u, i) == u[i]

\* shuffledUsers[i + 1] || shuffledUsers[0]
ReceiverAt(u, i) == IF i + 1 <= Len(u) THEN u[i + 1] ELSE u[1]

\* sendDate.setHours(sendDate.getHours() + Math.floor(Math.random() * 24) + 1),
\* with the clock counted in hours.
SendDateFor(t0, k) == t0 + FloorRandom(k, HoursPerDay) + 1

\* The record the loop body builds for the pair that starts at position i.
ScheduledRecord(u, i, t0, k) ==
    [senderId |-> u[i], receiverId |-> ReceiverAt(u, i),
     sendDate |-> SendDateFor(t0, k), isQueued |-> FALSE, isSent |-> FALSE]

\* messagesToSchedule after the loop (the content, a phrase drawn at random,
\* is left out).
BuildBatch(u, t0, ks) ==
    [n \in 1..Cardinality(PairStarts(Len(u))) |->
        ScheduledRecord(u, 2 * n - 1, t0, ks[n])]

\* Mutant: the failure is logged and the run goes on to its summary.
InsertFailureIgnored(sc) == [sc EXCEPT !.pc = "summary"]

\* The catch of scheduleMessages(): the error is rethrown to the caller.
RunFailed(sc) == [sc EXCEPT !.pc = "idle", !.outcome = "error"]

\* await AutoMessage.insertMany(...) throws inside the try block.
InsertFailed(sc) == RunFailed(sc)

\* if (activeUsers.length === 0) return
EmptyIsNoOp(sc) == [sc EXCEPT !.pc = "idle", !.outcome = "noop"]

\* The cron callback of MessageScheduler.start() calls scheduleMessages(),
\* which awaits the user query.
SchedulerTick ==
    /\ Ready("server")
    /\ proc["server"] = "running"
    /\ sched.pc = "idle"
    /\ sched' = [IdleScheduler(sched.users) EXCEPT !.pc = "find"]
    /\ UNCHANGED <<now, autoMessages, rmq, connecting, proc, connCount, connOpen,
                   chanOpen, consumers, tagCount, msgs, isRunning, scans,
                   lastPubFailed, triggerLog, invocations, handlerLog, faults,
                   closing, chat, calls>>

\* The user query resolves: no users end the run; otherwise the users are
\* shuffled, the batch is built and insertMany is awaited.
FindUsersOk ==
    /\ Ready("server")
    /\ sched.pc = "find"
    /\ IF sched.users = {}
       THEN sched' = EmptyIsNoOp(sched)
       ELSE \E ks \in [2..Cardinality(sched.users) -> RandomDraws],
               hs \in [1..Cardinality(PairStarts(Cardinality(sched.users))) -> RandomDraws] :
              LET u == ShuffleArray(ActiveUsers(sched.users), ks) IN
              sched' = [sched EXCEPT !.pc = "insert", !.t0 = now, !.perm = u,
                                     !.batch = BuildBatch(u, now, hs)]
    /\ UNCHANGED <<now, autoMessages, rmq, connecting, proc, connCount, connOpen,
                   chanOpen, consumers, tagCount, msgs, isRunning, scans,
                   lastPubFailed, triggerLog, invocations, handlerLog, faults,
                   closing, chat, calls>>

\* The user query rejects.
FindUsersFail ==
    /\ Ready("server")
    /\ sched.pc = "find"
    /\ Fault
    /\ sched' = RunFailed([sched EXCEPT !.failedAt = "find"])
    /\ UNCHANGED <<now, autoMessages, rmq, connecting, proc, connCount, connOpen,
                   chanOpen, consumers, tagCount, msgs, isRunning, scans,
                   lastPubFailed, triggerLog, invocations, handlerLog,
                   closing, chat, calls>>

\* insertMany resolves: the batch is in the collection and publishToQueue is
\* awaited.
InsertOk ==
    /\ Ready("server")
    /\ sched.pc = "insert"
    /\ sched' = [sched EXCEPT !.pc = "summary", !.inserted = sched.batch]
    /\ UNCHANGED <<now, autoMessages, rmq, connecting, proc, connCount, connOpen,
                   chanOpen, consumers, tagCount, msgs, isRunning, scans,
                   lastPubFailed, triggerLog, invocations, handlerLog, faults,
                   closing, chat, calls>>

\* insertMany rejects; the documents written before the failing one stay.
InsertFail ==
    /\ Ready("server")
    /\ sched.pc = "insert"
    /\ Fault
    /\ \E n \in 0..Len(sched.batch) :
          sched' = InsertFailed([sched EXCEPT !.inserted = SubSeq(sched.batch, 1, n),
                                              !.failedAt = "insert"])
    /\ UNCHANGED <<now, autoMessages, rmq, connecting, proc, connCount, connOpen,
                   chanOpen, consumers, tagCount, msgs, isRunning, scans,
                   lastPubFailed, triggerLog, invocations, handlerLog,
                   closing, chat, calls>>

\* publishToQueue("message-scheduler", {type, count, timestamp}) resolves.
SummaryOk ==
    /\ Ready("server")
    /\ sched.pc = "summary"
    /\ rmq["server"].channel # NoConn
    /\ sched' = [sched EXCEPT
            !.pc = "idle", !.outcome = "done",
            !.events = Append(@, [type |-> "MESSAGES_SCHEDULED",
                                  count |-> Len(sched.batch), timestamp |-> now])]
    /\ UNCHANGED <<now, autoMessages, rmq, connecting, proc, connCount, connOpen,
                   chanOpen, consumers, tagCount, msgs, isRunning, scans,
                   lastPubFailed, triggerLog, invocations, handlerLog, faults,
                   closing, chat, calls>>

\* publishToQueue throws (no channel, or the retry fails too).
SummaryFail ==
    /\ Ready("server")
    /\ sched.pc = "summary"
    /\ \/ Fault
       \/ rmq["server"].channel = NoConn /\ NoFault
    /\ sched' = RunFailed([sched EXCEPT !.failedAt = "summary"])
    /\ UNCHANGED <<now, autoMessages, rmq, connecting, proc, connCount, connOpen,
                   chanOpen, consumers, tagCount, msgs, isRunning, scans,
                   lastPubFailed, triggerLog, invocations, handlerLog,
                   closing, chat, calls>>

\* ------------------------------------------------------------ specification
BootNext(p) ==
    \/ BootConnect(p)
    \/ BootResume(p)
    \/ RegisterOk(p)
    \/ RegisterFail(p)

ConnectNext(p) ==
    \/ AmqpConnectOk(p)
    \/ AmqpConnectFail(p)
    \/ CreateChannelOk(p)
    \/ CreateChannelFail(p)
    \/ TimerFires(p)
    \/ \E n \in ConnIds : ConnectionClosed(p, n)
    \/ \E n \in ConnIds : ChannelClosed(p, n)

CloseNext(p) ==
    \/ CloseStart(p)
    \/ CloseChannelDone(p)
    \/ CloseConnectionDone(p)
    \/ ExitAfterClose(p)

ResumeConsumerNext(p) ==
    \/ StartConsumerOk(p)
    \/ StartConsumerFail(p)

ScanNext ==
    \/ CronTick
    \/ ManualTrigger
    \/ \E s \in 1..MaxScans : FindOk(s)
    \/ \E s \in 1..MaxScans : FindFail(s)
    \/ \E s \in 1..MaxScans : EndScan(s)
    \/ \E s \in 1..MaxScans : Publish(s)
    \/ \E s \in 1..MaxScans : Send(s)
    \/ \E s \in 1..MaxScans : Resend(s)
    \/ \E s \in 1..MaxScans : ScanResume(s)
    \/ \E s \in 1..MaxScans : SaveOk(s)
    \/ \E s \in 1..MaxScans : SaveFail(s)

HandlerNext ==
    \/ \E p \in Procs, n \in ConnIds : Deliver(p, n)
    \/ \E i \in 1..MaxInv : HandlerStep(i)
    \/ \E i \in 1..MaxInv : HandlerDone(i)
    \/ \E i \in 1..MaxInv : HandlerFail(i)

ConversationNext ==
    \/ \E a, b \in Users : CallStart(a, b)
    \/ CallUsers
    \/ CallFind
    \/ CallSave
    \/ CallFail

SchedulerNext ==
    \/ SchedulerTick
    \/ FindUsersOk
    \/ FindUsersFail
    \/ InsertOk
    \/ InsertFail
    \/ SummaryOk
    \/ SummaryFail

\* The whole system from the start of both processes.
Next ==
    \/ Tick
    \/ \E p \in Procs : BootNext(p)
    \/ \E p \in Procs : ConnectNext(p)
    \/ \E p \in Procs : ResumeConsumerNext(p)
    \/ \E p \in Procs : CloseNext(p)
    \/ ScanNext
    \/ HandlerNext
    \/ SchedulerNext
    \/ ConversationNext

Spec == Init /\ [][Next]_vars

\* The statics of a process whose boot connect() has returned.
BootedService(handler) ==
    [InitService EXCEPT !.connection = 1, !.channel = 1, !.consumerHandler = handler]

\* A process that is up holds its boot connection and channel; the consumer
\* has registered its handler on it.
InitServices(up) ==
    /\ rmq = [p \in Procs |-> IF p \in up THEN BootedService(p = "consumer")
                                          ELSE InitService]
    /\ connecting = [p \in Procs |-> IdleConnect]
    /\ proc = [p \in Procs |-> IF p \in up THEN "running" ELSE "exited"]
    /\ connCount = [p \in Procs |-> IF p \in up THEN 1 ELSE 0]
    /\ connOpen = [p \in Procs |-> IF p \in up THEN {1} ELSE {}]
    /\ chanOpen = [p \in Procs |-> IF p \in up THEN {1} ELSE {}]
    /\ consumers = [p \in Procs |-> [n \in ConnIds |->
                        IF p = "consumer" /\ p \in up /\ n = 1 THEN 1 ELSE 0]]
    /\ tagCount = [p \in Procs |-> [n \in ConnIds |-> 0]]
    /\ isRunning = FALSE
    /\ scans = [s \in 1..MaxScans |-> IdleScan]
    /\ lastPubFailed = {}
    /\ triggerLog = [cronDropped |-> FALSE, manualRejected |-> FALSE]
    /\ invocations = [i \in 1..MaxInv |-> IdleInvocation]
    /\ handlerLog = [m \in MsgIds |-> NoMsgLog]
    /\ closing = [p \in Procs |-> IdleClose]

\* The same with empty chat collections, no Scheduler run and no other
\* caller in progress.
InitProcesses(up) ==
    /\ InitServices(up)
    /\ chat = NoChat
    /\ sched = IdleScheduler({})
    /\ calls = NoCalls

\* The pipeline in operation: both processes have booted, the collection
\* holds Pending records, the queue is empty.  The consumer's own connection
\* stays up; the server's connection, the datastore and the handler fail.
InitPipeline ==
    /\ now = 1
    /\ autoMessages = [r \in RecIds |-> NewAutoMessage(SendDateOf(r))]
    /\ msgs = <<>>
    /\ InitProcesses(Procs)
    /\ faults = 0

NextPipeline ==
    \/ Tick
    \/ ConnectNext("server")
    \/ ScanNext
    \/ HandlerNext

SpecPipeline == InitPipeline /\ [][NextPipeline]_vars

\* Scheduling of the pipeline: time passes, the cron job keeps firing, timers
\* fire, and every reply the program awaits (datastore, broker) arrives.  A
\* timer or a broker reply waits only for the end of the current turn, so it
\* is not held off for ever by turns of the scan that keep coming (strong
\* fairness).
FairPipeline ==
    /\ WF_vars(Tick)
    /\ WF_vars(CronTick)
    /\ WF_vars(\E s \in 1..MaxScans : FindOk(s))
    /\ WF_vars(\E s \in 1..MaxScans : EndScan(s))
    /\ WF_vars(\E s \in 1..MaxScans : Publish(s))
    /\ WF_vars(\E s \in 1..MaxScans : Send(s))
    /\ WF_vars(\E s \in 1..MaxScans : Resend(s))
    /\ WF_vars(\E s \in 1..MaxScans : ScanResume(s))
    /\ WF_vars(\E s \in 1..MaxScans : SaveOk(s))
    /\ SF_vars(TimerFires("server"))
    /\ SF_vars(AmqpConnectOk("server"))
    /\ SF_vars(AmqpConnectFail("server"))
    /\ SF_vars(CreateChannelOk("server"))
    /\ WF_vars(\E p \in Procs, n \in ConnIds : Deliver(p, n))
    /\ WF_vars(\E i \in 1..MaxInv : HandlerStep(i))
    /\ WF_vars(\E i \in 1..MaxInv : HandlerDone(i))

\* The pipeline in operation in a run that sees a single fault.
InitLive ==
    /\ now = 1
    /\ autoMessages = [r \in RecIds |-> NewAutoMessage(SendDateOf(r))]
    /\ msgs = <<>>
    /\ InitProcesses(Procs)
    /\ faults = MaxFaults - 1

\* With one fault a connection is never lost while its channel is being
\* created, so createChannel() does not fail in these runs.
ConnectLive(p) ==
    \/ AmqpConnectOk(p)
    \/ AmqpConnectFail(p)
    \/ CreateChannelOk(p)
    \/ TimerFires(p)
    \/ \E n \in ConnIds : ConnectionClosed(p, n)
    \/ \E n \in ConnIds : ChannelClosed(p, n)

NextLive ==
    \/ Tick
    \/ ConnectLive("server")
    \/ ScanNext
    \/ HandlerNext

SpecLive == InitLive /\ [][NextLive]_vars /\ FairPipeline

\* The consumer process alone, started on a queue that holds one payload for
\* every record (the server queued them all and is down).
InitConsumer ==
    /\ now = MaxTime
    /\ autoMessages = [r \in RecIds |->
                        MarkQueued(NewAutoMessage(SendDateOf(r)), SendDateOf(r))]
    /\ msgs = [r \in RecIds |-> [rec |-> r, st |-> "ready", proc |-> "none",
                                  ch |-> NoConn, tag |-> 0]]
    /\ InitProcesses({"consumer"})
    /\ faults = 0

NextConsumer ==
    \/ ConnectNext("consumer")
    \/ ResumeConsumerNext("consumer")
    \/ HandlerNext

SpecConsumer == InitConsumer /\ [][NextConsumer]_vars

\* The consumer process with its shutdown handler: SIGINT may arrive at any
\* time and runs close() and process.exit(0).
NextShutdown ==
    \/ NextConsumer
    \/ CloseNext("consumer")

SpecShutdown == InitConsumer /\ [][NextShutdown]_vars

\* The Scheduler alone in the running server, for every size of the active
\* user set.
InitScheduler ==
    /\ now = 1
    /\ autoMessages = [r \in RecIds |-> NewAutoMessage(SendDateOf(r))]
    /\ msgs = <<>>
    /\ InitServices({"server"})
    /\ chat = NoChat
    /\ faults = 0
    /\ sched \in {IdleScheduler(1..n) : n \in 0..MaxUsers}
    /\ calls = NoCalls

NextScheduler ==
    \/ Tick
    \/ SchedulerNext

SpecScheduler == InitScheduler /\ [][NextScheduler]_vars

\* Conversation collections in which every pair of users has at most one
\* conversation, up to two conversations long.
PairSets == {{a, b} : a, b \in Users} \ {{a} : a \in Users}

InitialConversations ==
    {<<>>} \cup {<<p>> : p \in PairSets}
           \cup {pq \in PairSets \X PairSets : pq[1] # pq[2]}

\* One caller of createOrGetConversation in the running server, for every
\* set of active users and every such collection.
InitConversation ==
    /\ now = 1
    /\ autoMessages = [r \in RecIds |-> NewAutoMessage(SendDateOf(r))]
    /\ msgs = <<>>
    /\ InitServices({"server"})
    /\ chat \in {[NoChat EXCEPT !.conversations = cs] : cs \in InitialConversations}
    /\ faults = 0
    /\ sched = IdleScheduler({})
    /\ calls \in {[NoCalls EXCEPT !.active = A] : A \in SUBSET Users}

NextConversation == ConversationNext

SpecConversation == InitConversation /\ [][NextConversation]_vars

\* The consumer process from its start, on a queue that holds one payload
\* for every record; the broker may be unreachable when it starts.
InitBoot ==
    /\ now = MaxTime
    /\ autoMessages = [r \in RecIds |->
                        MarkQueued(NewAutoMessage(SendDateOf(r)), SendDateOf(r))]
    /\ msgs = [r \in RecIds |-> [rec |-> r, st |-> "ready", proc |-> "none",
                                  ch |-> NoConn, tag |-> 0]]
    /\ rmq = [p \in Procs |-> InitService]
    /\ connecting = [p \in Procs |-> IdleConnect]
    /\ proc = [p \in Procs |-> IF p = "consumer" THEN "init" ELSE "exited"]
    /\ connCount = [p \in Procs |-> 0]
    /\ connOpen = [p \in Procs |-> {}]
    /\ chanOpen = [p \in Procs |-> {}]
    /\ consumers = [p \in Procs |-> [n \in ConnIds |-> 0]]
    /\ tagCount = [p \in Procs |-> [n \in ConnIds |-> 0]]
    /\ isRunning = FALSE
    /\ scans = [s \in 1..MaxScans |-> IdleScan]
    /\ lastPubFailed = {}
    /\ triggerLog = [cronDropped |-> FALSE, manualRejected |-> FALSE]
    /\ invocations = [i \in 1..MaxInv |-> IdleInvocation]
    /\ handlerLog = [m \in MsgIds |-> NoMsgLog]
    /\ closing = [p \in Procs |-> IdleClose]
    /\ chat = NoChat
    /\ faults = 0
    /\ sched = IdleScheduler({})
    /\ calls = NoCalls

NextBoot ==
    \/ BootNext("consumer")
    \/ NextConsumer

SpecBoot == InitBoot /\ [][NextBoot]_vars

\* ------------------------------------------------------------------ claims
Pending(r) ==
    /\ ~autoMessages[r].isQueued
    /\ autoMessages[r].queuedAt = Unset
    /\ ~autoMessages[r].isSent

ActiveScans == {s \in 1..MaxScans : scans[s].pc # "idle"}

\* A scan whose loop is over and which returns in this turn.
AtEnd(s) == scans[s].pc = "publish" /\ scans[s].idx > Len(scans[s].found)

\* C1: every AutoMessage record satisfies isSent => isQueued in every
\* reachable state.
C1_SentImpliesQueued ==
    \A r \in RecIds : autoMessages[r].isSent => autoMessages[r].isQueued

\* C2: at most one QueueManager scan is in progress at any time, whatever the
\* interleaving of cron ticks and manual triggers.
C2_AtMostOneScan == Cardinality(ActiveScans) <= 1

\* A scan is in progress and waits (for the datastore or the broker) while
\* both kinds of trigger have already been turned away.
C2_Witness ==
    /\ \E s \in ActiveScans : scans[s].pc \in {"find", "save", "ensure", "retry"}
    /\ triggerLog.cronDropped
    /\ triggerLog.manualRejected

NewScan == \E s \in 1..MaxScans : scans[s].pc = "idle" /\ scans'[s].pc = "find"

\* C3: a trigger that arrives while a scan is in progress starts nothing: it
\* reads and writes no record, publishes nothing, and leaves the guard set;
\* the step changes nothing but the note that the trigger was turned away.
C3_OverlapIsNoOp ==
    [][(isRunning /\ (NewScan \/ triggerLog' # triggerLog))
        => /\ ~NewScan
           /\ isRunning'
           /\ UNCHANGED <<now, autoMessages, rmq, connecting, proc, connCount,
                          connOpen, chanOpen, consumers, tagCount, msgs, scans,
                          lastPubFailed, invocations, handlerLog, faults,
                   closing, chat,
                   sched, calls>>]_vars

\* The manual trigger has failed on the guard while a scan holds it.
C3_Witness == isRunning /\ triggerLog.manualRejected /\ Cardinality(ActiveScans) = 1

C5_FailedStaysPending ==
    ~isRunning => \A r \in lastPubFailed : Pending(r)

\* C6: a publish failure does not abort the scan: at the end of a scan every
\* record the due-query returned has been attempted, and each is counted as
\* queued or as failed.
C6_AllAttempted ==
    \A s \in 1..MaxScans : AtEnd(s) =>
        /\ scans[s].attempted = Range(scans[s].found)
        /\ Range(scans[s].queuedIds) \cup Range(scans[s].failedIds)
              = Range(scans[s].found)

\* A scan of two records ends: the publish of the first failed, the second
\* was published.
C6_Witness ==
    \E s \in 1..MaxScans :
        /\ AtEnd(s)
        /\ Len(scans[s].found) = 2
        /\ scans[s].found[1] \in scans[s].pubFailed
        /\ scans[s].found[2] \in scans[s].pubOk

OnlyPayload(m) == \A k \in 1..Len(msgs) : k # m => msgs[k].rec # msgs[m].rec

RunningHandlers(p) == {i \in 1..MaxInv : invocations[i].pc # "idle" /\ invocations[i].proc = p}

\* C9: within one process at most one handler invocation is in flight at
\* any time, across channel and connection closes and reconnects.
C9_HandlersSerialized ==
    \A p \in Procs : Cardinality(RunningHandlers(p)) <= 1

\* C10: at most one connection opened by the client is open at any time.
C10_OneConnection ==
    \A p \in Procs : Cardinality(connOpen[p]) <= 1

\* The client holds a channel and no connect() is in progress.
Connected(p) == rmq[p].channel # NoConn /\ ~rmq[p].isConnecting

Armed(p) == ~rmq[p].reconnectTimer /\ rmq'[p].reconnectTimer

C13_ResetOnSuccess ==
    [][\A p \in Procs : (Armed(p) /\ rmq[p].lastDelay = 0 /\ connCount[p] > 0)
            => rmq'[p].timerDelay = BaseDelayMs]_vars

\* The consumer lost its channel, reconnected (the delay had doubled in
\* between), served a message on the new channel, lost that one too, and the
\* reconnect now pending was scheduled at the base delay.
C13_Witness ==
    /\ rmq["consumer"].reconnectTimer
    /\ rmq["consumer"].timerDelay = BaseDelayMs
    /\ rmq["consumer"].channel = NoConn
    /\ \E m \in 1..Len(msgs) : handlerLog[m].deliveries > 0 /\ msgs[m].ch = 2
    /\ connCount["consumer"] = 2

\* A "close" event of a connection or channel reaches the running client.
CloseEvent(p) ==
    /\ proc'[p] = "running"
    /\ \/ chanOpen'[p] # chanOpen[p] /\ chanOpen'[p] \subseteq chanOpen[p]
       \/ connOpen'[p] # connOpen[p] /\ connOpen'[p] \subseteq connOpen[p]

\* C14: a close (or error-then-close) event on a connection or a channel
\* leaves the client without a channel and with a reconnect scheduled.
C14_CloseDisconnects ==
    [][\A p \in Procs : CloseEvent(p) =>
            rmq'[p].channel = NoConn /\ rmq'[p].reconnectTimer]_vars

\* The channel of the first connection closed while the connection stayed
\* open: the client is disconnected and a reconnect is pending.
C14_Witness ==
    /\ connOpen["consumer"] = {1}
    /\ chanOpen["consumer"] = {}
    /\ rmq["consumer"].channel = NoConn
    /\ rmq["consumer"].reconnectTimer
    /\ ~rmq["consumer"].isConnecting

PublishCalled(s) ==
    /\ scans[s].pc = "publish"
    /\ scans[s].idx <= Len(scans[s].found)
    /\ scans'[s] # scans[s]

\* C15: a publishMessage call made while the client holds no channel itself
\* starts a connection attempt.
C15_PublishConnects ==
    [][\A s \in 1..MaxScans :
          (PublishCalled(s) /\ rmq["server"].channel = NoConn) =>
              /\ connecting'["server"].pc = "amqp"
              /\ connecting'["server"].caller = "scan"
              /\ connecting'["server"].scan = s]_vars

\* The publishMessage call of scan s is over and its first sendToQueue failed.
RetriedCallOver(s) ==
    /\ scans[s].sends >= 1
    /\ \/ /\ scans[s].pc = "publish"
          /\ scans[s].idx > 1
          /\ scans[s].found[scans[s].idx - 1] \in scans[s].pubFailed
       \/ scans[s].pc = "save" /\ scans[s].sends = 2

C17_CloseCancelsReconnect ==
    \A p \in Procs : closing[p].pc = "done" =>
        ~rmq[p].reconnectTimer /\ ~rmq[p].isConnecting

\* The broker takes no further connection from the server, which holds no
\* channel: the broker has not become reachable again.
BrokerGone ==
    connCount["server"] = MaxConns /\ rmq["server"].channel = NoConn

DuePending(r) == autoMessages[r].sendDate <= now /\ Pending(r)

\* C18: provided the broker becomes reachable again and scans keep firing,
\* every due Pending record is eventually Queued.
C18_DueIsEventuallyQueued ==
    \A r \in RecIds : DuePending(r) ~> (autoMessages[r].isQueued \/ BrokerGone)

\* The end state of a record: a Conversation of its sender and receiver, an
\* auto Message with its content in it, and the record Sent with its date.
Delivered(r) ==
    /\ autoMessages[r].isSent
    /\ autoMessages[r].sentAt # Unset
    /\ \E c \in 1..Len(chat.conversations) :
          /\ chat.conversations[c] = {SenderOf(r), ReceiverOf(r)}
          /\ NewMessage(c, SenderOf(r), ContentOf(r), "auto") \in chat.messages

HandlerFailedFor(r) ==
    \E m \in 1..Len(msgs) : msgs[m].rec = r /\ handlerLog[m].failed

\* C19: a record queued by a scan eventually reaches its end state, unless a
\* step of the Consumer fails for it.
C19_QueuedIsEventuallyDelivered ==
    \A r \in RecIds :
        autoMessages[r].isQueued ~> (Delivered(r) \/ HandlerFailedFor(r))

\* Both records were queued and have reached their end state, in the one
\* conversation of the pair.
C19_Witness ==
    /\ \A r \in RecIds : autoMessages[r].isQueued /\ Delivered(r)
    /\ Len(chat.conversations) = 1

\* A Scheduler run whose batch has been built.
BatchBuilt == sched.perm # <<>>

C23_SendDateWithinDay ==
    \A n \in 1..Len(sched.batch) :
        /\ sched.t0 + 1 <= sched.batch[n].sendDate
        /\ sched.batch[n].sendDate < sched.t0 + HoursPerDay

\* C24: a run whose bulk insert fails ends with the error thrown to its
\* caller and without a summary event; a run that finds no active user
\* inserts nothing, emits nothing and throws nothing.
C24_FailedInsertAbandonsRun ==
    /\ sched.failedAt = "insert" =>
          sched.pc = "idle" /\ sched.outcome = "error" /\ sched.events = <<>>
    /\ (sched.users = {} /\ sched.pc = "idle" /\ sched.failedAt # "find") =>
          /\ sched.outcome \in {"none", "noop"}
          /\ sched.inserted = <<>>
          /\ sched.events = <<>>
    /\ sched.users = {} => sched.pc \in {"idle", "find"}

\* The insert of a batch of two failed after its first record was written.
C24_Witness ==
    /\ sched.failedAt = "insert"
    /\ Len(sched.batch) = 2
    /\ Len(sched.inserted) = 1
\* The calls of the caller that returned a conversation.
\* The consumer handles the queued payloads while a request of the API
\* server (conversation.controller.ts) calls createOrGetConversation: both
\* work on the same collection.  The brokers' connections stay up.
InitRace ==
    /\ now = MaxTime
    /\ autoMessages = [r \in RecIds |->
                        MarkQueued(NewAutoMessage(SendDateOf(r)), SendDateOf(r))]
    /\ msgs = [r \in RecIds |-> [rec |-> r, st |-> "ready", proc |-> "none",
                                  ch |-> NoConn, tag |-> 0]]
    /\ InitServices(Procs)
    /\ chat = NoChat
    /\ faults = 0
    /\ sched = IdleScheduler({})
    /\ calls \in {[NoCalls EXCEPT !.active = A] : A \in {{"alice", "bob"}, Users}}

NextRace ==
    \/ HandlerNext
    \/ ConversationNext

SpecRace == InitRace /\ [][NextRace]_vars

NormalReturns == {n \in 1..Len(calls.results) : calls.results[n] # 0}

\* At least two calls for the pair have returned a conversation.
BothReturned == Cardinality(NormalReturns) >= 2

ConversationsOf(pair) ==
    {c \in 1..Len(chat.conversations) : chat.conversations[c] = pair}

\* C25: two calls of createOrGetConversation for the same unordered pair, in
\* either argument order, return the same conversation id and leave exactly
\* one Conversation of that pair.
C25_GetOrCreateIsIdempotent ==
    BothReturned =>
        /\ \A m, n \in NormalReturns : calls.results[m] = calls.results[n]
        /\ Cardinality(ConversationsOf(calls.pair)) = 1
        /\ \A n \in NormalReturns : chat.conversations[calls.results[n]] = calls.pair

\* The first call created the conversation and the second returned it.
C25_Witness ==
    /\ calls.results # <<>> /\ calls.results[1] = Len(chat.conversations)
    /\ BothReturned
    /\ calls.created = 1

\* C26: a broker connectivity error never ends the process that hosts the
\* client.
C26_BrokerErrorNotFatal == proc["consumer"] # "exited"

\* C27: the status of a record changes only along Pending -> Queued -> Sent,
\* each change made by its owner: isQueued and queuedAt are set by a scan's
\* save(), isSent and sentAt by the Consumer's last step; no flag is reset.
C27_StatusOnlyAdvances ==
    [][\A r \in RecIds :
          LET old == autoMessages[r]
              new == autoMessages'[r]
          IN
          /\ old.isQueued => new.isQueued
          /\ old.isSent => new.isSent
          /\ (new.isQueued /\ ~old.isQueued) => ~old.isSent
          /\ (new.isSent /\ ~old.isSent) => old.isQueued
          /\ (new.isQueued # old.isQueued \/ new.queuedAt # old.queuedAt) =>
                \E s \in 1..MaxScans : scans[s].pc = "save" /\ scans[s].found[scans[s].idx] = r
          /\ (new.isSent # old.isSent \/ new.sentAt # old.sentAt) =>
                \E i \in 1..MaxInv :
                    invocations[i].pc = "mark" /\ msgs[invocations[i].msg].rec = r]_vars

\* C28: no record is handed to the broker or marked Queued before its
\* sendDate; every Queued record has sendDate <= queuedAt.
C28_NotBeforeSendDate ==
    /\ \A r \in RecIds :
          autoMessages[r].isQueued => autoMessages[r].sendDate <= autoMessages[r].queuedAt
    /\ \A m \in 1..Len(msgs) : autoMessages[msgs[m].rec].sendDate <= now
    /\ \A s \in 1..MaxScans : \A n \in 1..Len(scans[s].found) :
          autoMessages[scans[s].found[n]].sendDate <= scans[s].t0

\* A scan at time 1 queued the record due then and left the one due later,
\* which a later scan queued when it was due.
C28_Witness ==
    /\ autoMessages[1].isQueued /\ autoMessages[1].queuedAt < autoMessages[MaxRecords].sendDate
    /\ autoMessages[MaxRecords].isQueued

\* C29: the result a scan returns accounts for every record of its due-query
\* exactly once: found is their number, queuedIds and failedIds are disjoint
\* and together hold exactly those records, queued is the size of queuedIds,
\* and queuedIds are the records the scan marked Queued.
C29_ResultAccountsForAll ==
    \A s \in 1..MaxScans : AtEnd(s) =>
        LET sc == scans[s] IN
        /\ sc.nFound = Len(sc.found)
        /\ Range(sc.queuedIds) \cap Range(sc.failedIds) = {}
        /\ Range(sc.queuedIds) \cup Range(sc.failedIds) = Range(sc.found)
        /\ Len(sc.queuedIds) + Len(sc.failedIds) = Len(sc.found)
        /\ sc.queued = Len(sc.queuedIds)
        /\ Range(sc.queuedIds) = sc.marked

\* A scan ends with one record queued and one failed.
C29_Witness ==
    \E s \in 1..MaxScans :
        AtEnd(s) /\ Len(scans[s].queuedIds) = 1 /\ Len(scans[s].failedIds) = 1

\* C30: the Consumer marks a record sent after it has got the conversation
\* and stored the message, so a record with isSent=true has an auto Message
\* with its content and sender in a conversation of its sender and receiver.
C30_SentHasMessage ==
    \A r \in RecIds : autoMessages[r].isSent =>
        \E c \in 1..Len(chat.conversations) :
            /\ chat.conversations[c] = {SenderOf(r), ReceiverOf(r)}
            /\ NewMessage(c, SenderOf(r), ContentOf(r), "auto") \in chat.messages

\* Every record has been marked sent.
C30_Witness == \A r \in RecIds : autoMessages[r].isSent /\ autoMessages[r].sentAt # Unset

\* C31: shuffleArray returns a permutation of its input for every sequence
\* of random choices: same length, each input element exactly once.
C31_ShuffleIsPermutation ==
    BatchBuilt =>
        /\ Len(sched.perm) = Cardinality(sched.users)
        /\ Range(sched.perm) = sched.users
        /\ \A i, j \in 1..Len(sched.perm) : sched.perm[i] = sched.perm[j] => i = j

\* A shuffle of MaxUsers users that moved every one of them.
C31_Witness ==
    /\ BatchBuilt
    /\ Len(sched.perm) = MaxUsers
    /\ \A i \in 1..MaxUsers : sched.perm[i] # ActiveUsers(sched.users)[i]

\* C32: across any sequence of scans the payload of a record is placed on
\* the broker queue at most once, and a record a scan has published is not
\* selected by a later scan.
C32_PublishedAtMostOnce ==
    /\ \A r \in RecIds : Cardinality({m \in 1..Len(msgs) : msgs[m].rec = r}) <= 1
    /\ \A s \in 1..MaxScans : \A n \in 1..Len(scans[s].found) :
          LET r == scans[s].found[n] IN
          (n > scans[s].idx \/ (n = scans[s].idx /\ scans[s].pc \in {"publish", "ensure", "send"}))
              => \A m \in 1..Len(msgs) : msgs[m].rec # r

\* C33: the re-entrancy flag is released whenever a scan ends, normally or
\* by throwing: the flag is never set with no scan in progress, and a
\* trigger is turned away only while a scan is in progress.
C33_GuardReleased ==
    [][/\ ActiveScans' = {} => ~isRunning'
       /\ (triggerLog' # triggerLog) => ActiveScans # {}]_vars

\* A scan's due-query has failed, the flag is free again and the next
\* trigger has started a scan.
C33_Witness ==
    /\ isRunning
    /\ \E s \in ActiveScans : scans[s].threw /\ scans[s].pc = "save"

\* C34: the consume callback acknowledges or rejects a delivery on the
\* channel that delivered it, also when that channel was closed, invalidated
\* or replaced while the handler ran; never on a missing or another channel.
C34_SettledOnDeliveringChannel ==
    [][\A i \in 1..MaxInv :
          (invocations[i].pc # "idle" /\ invocations'[i].pc = "idle")
              => rmq[invocations[i].proc].channel = invocations[i].ch]_vars

\* C35: when createOrGetConversation runs concurrently for the same
\* unordered pair (the Consumer and an API request), at most one
\* Conversation of that pair exists afterwards and both calls return it.
C35_ConcurrentGetOrCreate ==
    /\ \A pair \in PairSets : Cardinality(ConversationsOf(pair)) <= 1
    /\ \A n \in NormalReturns : \A i \in 1..MaxInv :
          (/\ invocations[i].pc \in {"msg", "mark"}
           /\ {SenderOf(msgs[invocations[i].msg].rec),
               ReceiverOf(msgs[invocations[i].msg].rec)} = calls.pair)
              => invocations[i].conv = calls.results[n]

\* C36: at most one reconnect timer is pending and at most one connect
\* attempt is in progress at any time: scheduleReconnect leaves a pending
\* timer as it is, and a connect() called while another is in progress
\* returns without opening a connection.
C36_OneTimerOneAttempt ==
    [][\A p \in Procs :
          /\ rmq'[p].timers <= 1
          /\ rmq'[p].attempts <= 1
          /\ (rmq[p].reconnectTimer /\ rmq'[p].reconnectTimer) =>
                /\ rmq'[p].timers = rmq[p].timers
                /\ rmq'[p].timerDelay = rmq[p].timerDelay
          /\ (rmq[p].isConnecting /\ connecting[p].pc # "amqp") =>
                /\ rmq'[p].attempts <= rmq[p].attempts
                /\ connCount'[p] = connCount[p]]_vars

\* The server's connect() is in progress, a reconnect timer is pending, and
\* the connect() a publish called through ensureChannel has returned at once,
\* leaving the publish without a channel.
C36_Witness ==
    /\ rmq["server"].attempts = 1
    /\ rmq["server"].timers = 1
    /\ \E s \in ActiveScans :
          scans[s].pc = "publish" /\ scans[s].pubFailed # {} /\ scans[s].sends = 0

====
